---- MODULE Spec2Model ----
(***************************************************************************)
(* Job-tracker ingestion pipeline: the scrape orchestrators                *)
(* (BaseScraper.scrape, IndeedScraper.scrape,                              *)
(* IndeedScraper.scrape_with_pagination), the browser session they own,    *)
(* and JobScraperService.scrape_and_save_indeed with the jobs and          *)
(* scraper_logs tables it writes.                                          *)
(***************************************************************************)
EXTENDS Integers, Sequences, FiniteSets, TLC

\* ---------------------------------------------------------------- bounds
MaxKeywords == 2      \* longest keyword list of a direct orchestrator call
MaxLocations == 2     \* longest location list of a direct orchestrator call
MaxPerPage == 2       \* most listings one search page yields
MaxCap == 2           \* largest max_jobs tried (the smallest is -1)
MaxPagesArg == 2      \* largest max_pages tried
MaxRuns == 2          \* ingestion runs (scraper_logs rows) per behaviour
MaxPageFaults == 1    \* page loads that fail during one scrape
MaxTime == 2          \* clock ticks per behaviour
MaxCalls == 3         \* calls of start_scheduler and stop_scheduler per behaviour
MaxCards == 1         \* job cards on a parsed search page
MaxScrapes == 2       \* scrape calls on one scraper object
MaxDirect == 2        \* direct _init_driver and scrape_search_page calls between scrapes

Keywords == {"k1", "k2"}
Locations == {"l1", "l2"}
Urls == {"u1", "u2"}
\* The threads: the scheduler's worker (scrape_indeed_job), a request
\* handler (trigger_indeed_scrape), and a caller that drives a scraper
\* object directly.
Callers == {"scheduled", "manual"}
Procs == Callers \cup {"direct"}

Min(a, b) == IF a <= b THEN a ELSE b
Max(a, b) == IF a >= b THEN a ELSE b

SeqsUpTo(S, n) == UNION {[1..k -> S] : k \in 0..n}

\* Keyword and location lists, up to renaming of the first element.
KeywordLists == {s \in SeqsUpTo(Keywords, MaxKeywords) : s = <<>> \/ s[1] = "k1"}
LocationLists == {s \in SeqsUpTo(Locations, MaxLocations) : s = <<>> \/ s[1] = "l1"}
Caps == (0 - 1)..MaxCap
PageCounts == 0..MaxPagesArg
\* What one search page parses to: the job_board_url of each parsed card.
PageResults == SeqsUpTo(Urls, MaxPerPage)
\* The orchestrators never look inside a job: for a direct call one URL
\* stands for all.
DirectPageResults == SeqsUpTo({"u1"}, MaxPerPage)
\* The lists a request to /scrape/indeed carries.
RequestKeywordLists == {<<>>, <<"k1">>}
RequestLocationLists == {<<>>, <<"l1">>, <<"l1", "l2">>}

\* settings.scraping_keywords_list, settings.scraping_locations_list and
\* settings.MAX_JOBS_PER_SCRAPE, scaled down.
scraping_keywords_list == <<"k1">>
scraping_locations_list == <<"l1">>
MAX_JOBS_PER_SCRAPE == 2
\* settings.SCRAPING_INTERVAL, in clock ticks.
SCRAPING_INTERVAL == 2

VARIABLES
    pc,            \* pc[r]: where thread r is
    call,          \* call[r]: the arguments of the operation r is running
    scraper,       \* scraper[r]: the scraper object r's operation owns
    svc,           \* svc[r]: the locals of scrape_and_save_indeed
    jobs,          \* the jobs table, rows in insertion order
    scraper_logs,  \* the scraper_logs table, rows in insertion order
    sched,         \* the process-wide scheduler of tasks/scheduler.py
    page           \* one search page being parsed by scrape_search_page

vars == <<pc, call, scraper, svc, jobs, scraper_logs, sched, page>>

\* ------------------------------------------------------------ Python bits
\* s[:n]
PySliceMutNoCut(s, n) == s
PySlice(s, n) ==
    IF n >= 0 THEN SubSeq(s, 1, Min(n, Len(s)))
    ELSE SubSeq(s, 1, Max(Len(s) + n, 0))

\* s[-1]
PyLast(s) == s[Len(s)]

RECURSIVE CountIn(_, _)
CountIn(s, x) ==
    IF s = <<>> THEN 0
    ELSE (IF s[1] = x THEN 1 ELSE 0) + CountIn(Tail(s), x)

\* ------------------------------------------------------------ scraper
NoCall == [entry |-> "none", keywords |-> <<>>, locations |-> <<>>,
           max_jobs |-> 0, max_pages |-> 0]

\* BaseScraper.__init__ / IndeedScraper.__init__, with the history of the
\* session it owns: sessions created, quit() calls, _close_driver calls,
\* failed page loads, and the requests and delays of the current scrape.
NewScraper == [driver |-> "none", jobs_scraped |-> <<>>,
               ki |-> 1, li |-> 1, page |-> 0,
               opened |-> 0, quits |-> 0, closes |-> 0, page_faults |-> 0,
               trace |-> <<>>, returned |-> <<>>, error |-> "none"]

\* The locals of scrape_and_save_indeed, with two pieces of history: the
\* URLs stored when the run began (seen) and what became of each listing
\* ("duplicate" by lookup, "added", "conflict" by IntegrityError,
\* "dropped").
NoSvc == [log_id |-> 0, jobs_scraped |-> <<>>, idx |-> 1,
          jobs_added |-> 0, jobs_duplicate |-> 0,
          outcome |-> <<>>, seen |-> {}, summary |-> [status |-> "none"]]

\* One entry of a scrape's history: a page request (driver.get of the
\* search URL of (keyword, location) at offset start; ok = FALSE when the
\* load or the wait for the job cards raised), a page whose session could
\* not be created ("nofetch"), or a random_delay ("delay").
GetEvent(k, l, start, ok) ==
    [ev |-> "get", keyword |-> k, location |-> l, start |-> start, ok |-> ok]
NoFetchEvent(k, l, start) ==
    [ev |-> "nofetch", keyword |-> k, location |-> l, start |-> start, ok |-> FALSE]
DelayEvent ==
    [ev |-> "delay", keyword |-> "", location |-> "", start |-> 0, ok |-> TRUE]

\* _close_driver: quit the session if there is one.
CloseDriverMutNoQuit(s) ==
    [s EXCEPT !.closes = @ + 1]
CloseDriver(s) ==
    IF s.driver = "open"
    THEN [s EXCEPT !.driver = "none", !.quits = @ + 1, !.closes = @ + 1]
    ELSE [s EXCEPT !.closes = @ + 1]


InitDriverMutAlways(s, how) ==
    IF how = "no_session" THEN s
    ELSE [s EXCEPT !.driver = "open", !.opened = @ + 1]
\* _init_driver: how = "ok", "no_session" (webdriver.Chrome raises) or
\* "script" (execute_script raises after the session exists).
InitDriver(s, how) ==
    IF s.driver # "none" THEN s
    ELSE IF how = "no_session" THEN s
    ELSE [s EXCEPT !.driver = "open", !.opened = @ + 1]

InitRaises(s, how) == s.driver = "none" /\ how # "ok"

\* scheduler = BackgroundScheduler() (scheduler.py line 11): stopped, no
\* job stored, at time now.  stopping: stop_scheduler is inside
\* scheduler.shutdown(), waiting for the worker.  History: the calls made
\* ("start_on", "start_off" by the value of SCRAPING_ENABLED, "stop"), the
\* exceptions start_scheduler and stop_scheduler raised, the times at
\* which the callback was started (fire_times), the due times whose run
\* was not started because the previous one was still going (skipped),
\* the sessions scrape_indeed_job opened and closed, and the exceptions
\* it caught.
NewScheduler == [running |-> FALSE, jobstore |-> <<>>, stopping |-> FALSE,
                 now |-> 0, calls |-> <<>>, errors |-> {},
                 fire_times |-> <<>>, skipped |-> <<>>,
                 db_opened |-> 0, db_closed |-> 0, callback_errors |-> 0]

\* No page is being parsed.
NoPage == [state |-> "none", cards |-> <<>>, jobs |-> <<>>, i |-> 1]



CapReachedMutNever(r) == FALSE
CapReachedMutStrict(r) == Len(scraper[r].jobs_scraped) > call[r].max_jobs
\* The loops' cap test: len(self.jobs_scraped) >= max_jobs
CapReached(r) == Len(scraper[r].jobs_scraped) >= call[r].max_jobs

Init ==
    /\ pc = [r \in Procs |-> "idle"]
    /\ call = [r \in Procs |-> NoCall]
    /\ scraper = [r \in Procs |-> NewScraper]
    /\ svc = [r \in Procs |-> NoSvc]
    /\ jobs = <<>>
    /\ scraper_logs = <<>>
    /\ sched = NewScheduler
    /\ page = NoPage

\* ------------------------------------------------- scrape_search_page
\* IndeedScraper.scrape_search_page(url): how = "ok" (the cards parse to
\* res), "timeout" (driver.get or the wait raises), "no_session" or
\* "script" (_init_driver raises).  Every exception is caught and the
\* jobs collected so far (none) are returned.
PageHows(s) ==
    IF s.page_faults >= MaxPageFaults THEN {"ok"}
    ELSE IF s.driver = "none" THEN {"ok", "timeout", "no_session", "script"}
    ELSE {"ok", "timeout"}

\* The scheduler's behaviour does not depend on which jobs a page holds
\* either: for a run the scheduler fired one URL stands for all.
PageResultsFor(r) ==
    IF call[r].entry = "service" /\ sched.fire_times = <<>>
    THEN PageResults ELSE DirectPageResults

ScrapeSearchPage(s, k, l, start, how, res) ==
    LET s1 == InitDriver(s, IF how \in {"no_session", "script"} THEN how ELSE "ok") IN
    IF InitRaises(s, how)
    THEN [s |-> [s1 EXCEPT !.trace = Append(@, NoFetchEvent(k, l, start)),
                           !.page_faults = @ + 1],
          jobs |-> <<>>]
    ELSE IF how = "timeout"
    THEN [s |-> [s1 EXCEPT !.trace = Append(@, GetEvent(k, l, start, FALSE)),
                           !.page_faults = @ + 1],
          jobs |-> <<>>]
    ELSE [s |-> [s1 EXCEPT !.trace = Append(@, GetEvent(k, l, start, TRUE))], jobs |-> res]

\* random_delay
RandomDelay(s) == [s EXCEPT !.trace = Append(@, DelayEvent)]

\* The position of the nested for loops.
KeywordMutFirst(r) == call[r].keywords[1]
Keyword(r) == call[r].keywords[scraper[r].ki]
Location(r) == call[r].locations[scraper[r].li]
AtPair(r) ==
    /\ scraper[r].ki <= Len(call[r].keywords)
    /\ scraper[r].li <= Len(call[r].locations)
LocationsDone(r) ==
    /\ scraper[r].ki <= Len(call[r].keywords)
    /\ scraper[r].li > Len(call[r].locations)
KeywordsDone(r) == scraper[r].ki > Len(call[r].keywords)

\* The value a finished orchestrator hands back: self.jobs_scraped[:max_jobs]
ReturnedJobs(r) == PySlice(scraper[r].jobs_scraped, call[r].max_jobs)

\* Where control goes when IndeedScraper.scrape returns: into the save
\* loop of scrape_and_save_indeed, or back to a direct caller.
AfterReturn(r) == IF call[r].entry = "service" THEN "save" ELSE "returned"

\* ------------------------------------------------ IndeedScraper.scrape
\* self._init_driver(); self.jobs_scraped = [] -- or _init_driver raises,
\* the finally clause closes the driver and the exception propagates.
IndeedScrapeInitMutNoFinally(r) ==
    /\ pc[r] = "indeed_scrape"
    /\ \E how \in {"ok", "no_session", "script"} :
         LET s1 == InitDriver(scraper[r], how) IN
         IF InitRaises(scraper[r], how)
         THEN /\ scraper' = [scraper EXCEPT ![r] = [s1 EXCEPT !.error = "driver_error"]]
              /\ pc' = [pc EXCEPT ![r] = "raised"]
         ELSE /\ scraper' = [scraper EXCEPT ![r] =
                     [s1 EXCEPT !.jobs_scraped = <<>>, !.ki = 1, !.li = 1]]
              /\ pc' = [pc EXCEPT ![r] = "indeed_loop"]
    /\ UNCHANGED <<sched, page, call, svc, jobs, scraper_logs>>
IndeedScrapeInit(r) ==
    /\ pc[r] = "indeed_scrape"
    /\ \E how \in {"ok", "no_session", "script"} :
         LET s1 == InitDriver(scraper[r], how) IN
         IF InitRaises(scraper[r], how)
         THEN /\ scraper' = [scraper EXCEPT ![r] =
                     [CloseDriver(s1) EXCEPT !.error = "driver_error"]]
              /\ pc' = [pc EXCEPT ![r] = "raised"]
         ELSE /\ scraper' = [scraper EXCEPT ![r] =
                     [s1 EXCEPT !.jobs_scraped = <<>>, !.ki = 1, !.li = 1]]
              /\ pc' = [pc EXCEPT ![r] = "indeed_loop"]
    /\ UNCHANGED <<sched, page, call, svc, jobs, scraper_logs>>

\* One pass of the inner loop body: request the pair's page, extend the
\* accumulator, random_delay.
IndeedIterateMutNoCatch(r) ==
    /\ pc[r] = "indeed_loop"
    /\ AtPair(r)
    /\ ~CapReached(r)
    /\ \E how \in PageHows(scraper[r]), res \in PageResultsFor(r) :
         /\ how # "ok" => res = <<>>
         /\ LET p == ScrapeSearchPage(scraper[r], Keyword(r), Location(r), 0, how, res) IN
            IF how = "ok"
            THEN /\ scraper' = [scraper EXCEPT ![r] =
                        [RandomDelay(p.s) EXCEPT !.jobs_scraped = @ \o p.jobs, !.li = @ + 1]]
                 /\ pc' = pc
            ELSE /\ scraper' = [scraper EXCEPT ![r] =
                        [CloseDriver(p.s) EXCEPT !.error = "loop_error"]]
                 /\ pc' = [pc EXCEPT ![r] = "raised"]
    /\ UNCHANGED <<sched, page, call, svc, jobs, scraper_logs>>
IndeedIterate(r) ==
    /\ pc[r] = "indeed_loop"
    /\ AtPair(r)
    /\ ~CapReached(r)
    /\ \E how \in PageHows(scraper[r]), res \in PageResultsFor(r) :
         /\ how # "ok" => res = <<>>
         /\ LET p == ScrapeSearchPage(scraper[r], Keyword(r), Location(r), 0, how, res) IN
            scraper' = [scraper EXCEPT ![r] =
                [RandomDelay(p.s) EXCEPT !.jobs_scraped = @ \o p.jobs, !.li = @ + 1]]
    /\ UNCHANGED <<sched, page, pc, call, svc, jobs, scraper_logs>>

\* The inner loop ran out of locations and the cap is not reached.
IndeedNextKeyword(r) ==
    /\ pc[r] = "indeed_loop"
    /\ LocationsDone(r)
    /\ ~CapReached(r)
    /\ scraper' = [scraper EXCEPT ![r] = [@ EXCEPT !.ki = @ + 1, !.li = 1]]
    /\ UNCHANGED <<sched, page, pc, call, svc, jobs, scraper_logs>>

\* An exception escapes the loop body (build_search_url raises on a
\* malformed keyword): finally closes the driver, the exception propagates.
IndeedFault(r) ==
    /\ pc[r] = "indeed_loop"
    /\ AtPair(r)
    /\ ~CapReached(r)
    /\ scraper' = [scraper EXCEPT ![r] = [CloseDriver(@) EXCEPT !.error = "loop_error"]]
    /\ pc' = [pc EXCEPT ![r] = "raised"]
    /\ UNCHANGED <<sched, page, call, svc, jobs, scraper_logs>>

\* The loops end (keywords exhausted, or a break on the cap):
\* return self.jobs_scraped[:max_jobs]; finally closes the driver.
IndeedReturn(r) ==
    /\ pc[r] = "indeed_loop"
    /\ KeywordsDone(r) \/ CapReached(r)
    /\ scraper' = [scraper EXCEPT ![r] = [CloseDriver(@) EXCEPT !.returned = ReturnedJobs(r)]]
    /\ pc' = [pc EXCEPT ![r] = AfterReturn(r)]
    /\ UNCHANGED <<sched, page, call, svc, jobs, scraper_logs>>

\* -------------------------------------------------- BaseScraper.scrape
\* The rate-limiting test of line 124.
BaseDelays(r) ==
    \/ Keyword(r) # PyLast(call[r].keywords)
    \/ Location(r) # PyLast(call[r].locations)

\* One pass of the inner loop body; scrape_search_page is the subclass's
\* and returns the page's jobs.
BaseIterate(r) ==
    /\ pc[r] = "base_loop"
    /\ AtPair(r)
    /\ ~CapReached(r)
    /\ \E res \in PageResultsFor(r) :
         LET s1 == [scraper[r] EXCEPT
                       !.trace = Append(@, GetEvent(Keyword(r), Location(r), 0, TRUE)),
                       !.jobs_scraped = @ \o res,
                       !.li = @ + 1] IN
         scraper' = [scraper EXCEPT ![r] = IF BaseDelays(r) THEN RandomDelay(s1) ELSE s1]
    /\ UNCHANGED <<sched, page, pc, call, svc, jobs, scraper_logs>>

BaseNextKeyword(r) ==
    /\ pc[r] = "base_loop"
    /\ LocationsDone(r)
    /\ ~CapReached(r)
    /\ scraper' = [scraper EXCEPT ![r] = [@ EXCEPT !.ki = @ + 1, !.li = 1]]
    /\ UNCHANGED <<sched, page, pc, call, svc, jobs, scraper_logs>>

\* The subclass's scrape_search_page (or build_search_url) raises: the
\* except clause of line 130 logs it, and line 138 returns what there is.
BaseFault(r) ==
    /\ pc[r] = "base_loop"
    /\ AtPair(r)
    /\ ~CapReached(r)
    /\ scraper' = [scraper EXCEPT ![r] =
            [@ EXCEPT !.trace = Append(@, GetEvent(Keyword(r), Location(r), 0, FALSE)),
                      !.error = "loop_error",
                      !.returned = ReturnedJobs(r)]]
    /\ pc' = [pc EXCEPT ![r] = "returned"]
    /\ UNCHANGED <<sched, page, call, svc, jobs, scraper_logs>>

BaseReturn(r) ==
    /\ pc[r] = "base_loop"
    /\ KeywordsDone(r) \/ CapReached(r)
    /\ scraper' = [scraper EXCEPT ![r] = [@ EXCEPT !.returned = ReturnedJobs(r)]]
    /\ pc' = [pc EXCEPT ![r] = "returned"]
    /\ UNCHANGED <<sched, page, call, svc, jobs, scraper_logs>>

\* ------------------------------- IndeedScraper.scrape_with_pagination
\* for page in range(max_pages) still has a page to request.
PagesLeft(r) == scraper[r].page < call[r].max_pages


PagIterateMutStopAll(r) ==
    /\ pc[r] = "pag_loop"
    /\ AtPair(r)
    /\ PagesLeft(r)
    /\ ~CapReached(r)
    /\ \E how \in PageHows(scraper[r]), res \in PageResultsFor(r) :
         /\ how # "ok" => res = <<>>
         /\ LET p == ScrapeSearchPage(scraper[r], Keyword(r), Location(r),
                                      scraper[r].page * 10, how, res)
                s1 == [p.s EXCEPT !.jobs_scraped = @ \o p.jobs, !.page = @ + 1]
            IN  scraper' = [scraper EXCEPT ![r] =
                    IF p.jobs = <<>>
                    THEN [p.s EXCEPT !.ki = Len(call[r].keywords) + 1, !.li = 1, !.page = 0]
                    ELSE IF scraper[r].page < call[r].max_pages - 1
                    THEN RandomDelay(s1)
                    ELSE s1]
    /\ UNCHANGED <<sched, page, pc, call, svc, jobs, scraper_logs>>
\* One pass of the page loop body: request the page at start = page * 10;
\* an empty page breaks the page loop, otherwise extend and, unless this
\* was the last page index, random_delay.
PagIterate(r) ==
    /\ pc[r] = "pag_loop"
    /\ AtPair(r)
    /\ PagesLeft(r)
    /\ ~CapReached(r)
    /\ \E how \in PageHows(scraper[r]), res \in PageResultsFor(r) :
         /\ how # "ok" => res = <<>>
         /\ LET p == ScrapeSearchPage(scraper[r], Keyword(r), Location(r),
                                      scraper[r].page * 10, how, res)
                s1 == [p.s EXCEPT !.jobs_scraped = @ \o p.jobs, !.page = @ + 1]
            IN  scraper' = [scraper EXCEPT ![r] =
                    IF p.jobs = <<>>
                    THEN [p.s EXCEPT !.li = @ + 1, !.page = 0]
                    ELSE IF scraper[r].page < call[r].max_pages - 1
                    THEN RandomDelay(s1)
                    ELSE s1]
    /\ UNCHANGED <<sched, page, pc, call, svc, jobs, scraper_logs>>

\* range(max_pages) is exhausted: on to the next location.
PagNextLocation(r) ==
    /\ pc[r] = "pag_loop"
    /\ AtPair(r)
    /\ ~PagesLeft(r)
    /\ ~CapReached(r)
    /\ scraper' = [scraper EXCEPT ![r] = [@ EXCEPT !.li = @ + 1, !.page = 0]]
    /\ UNCHANGED <<sched, page, pc, call, svc, jobs, scraper_logs>>

PagNextKeyword(r) ==
    /\ pc[r] = "pag_loop"
    /\ LocationsDone(r)
    /\ ~CapReached(r)
    /\ scraper' = [scraper EXCEPT ![r] = [@ EXCEPT !.ki = @ + 1, !.li = 1, !.page = 0]]
    /\ UNCHANGED <<sched, page, pc, call, svc, jobs, scraper_logs>>

\* An exception escapes the page loop body (build_search_url raises):
\* finally closes the driver, the exception propagates.
PagFault(r) ==
    /\ pc[r] = "pag_loop"
    /\ AtPair(r)
    /\ PagesLeft(r)
    /\ ~CapReached(r)
    /\ scraper' = [scraper EXCEPT ![r] = [CloseDriver(@) EXCEPT !.error = "loop_error"]]
    /\ pc' = [pc EXCEPT ![r] = "raised"]
    /\ UNCHANGED <<sched, page, call, svc, jobs, scraper_logs>>

PagReturn(r) ==
    /\ pc[r] = "pag_loop"
    /\ KeywordsDone(r) \/ CapReached(r)
    /\ scraper' = [scraper EXCEPT ![r] = [CloseDriver(@) EXCEPT !.returned = ReturnedJobs(r)]]
    /\ pc' = [pc EXCEPT ![r] = "returned"]
    /\ UNCHANGED <<sched, page, call, svc, jobs, scraper_logs>>

\* A direct call of one of the three orchestrators on a new scraper.
EntryLoop(entry) ==
    IF entry = "base" THEN "base_loop"
    ELSE IF entry = "indeed" THEN "indeed_scrape"
    ELSE "pag_loop"

DirectCall(r) ==
    /\ pc[r] = "idle"
    /\ \E entry \in {"base", "indeed", "paginated"},
          kw \in KeywordLists, loc \in LocationLists, cap \in Caps, pages \in PageCounts :
         /\ entry # "paginated" => pages = 0
         /\ call' = [call EXCEPT ![r] = [entry |-> entry, keywords |-> kw,
                         locations |-> loc, max_jobs |-> cap, max_pages |-> pages]]
         /\ pc' = [pc EXCEPT ![r] = EntryLoop(entry)]
    /\ scraper' = [scraper EXCEPT ![r] = NewScraper]
    /\ UNCHANGED <<sched, page, svc, jobs, scraper_logs>>

\* ------------------------------ JobScraperService.scrape_and_save_indeed
\* ScraperLog(job_board="indeed", status="running", ...) with the column
\* defaults of the model class.
NewLog == [status |-> "running", jobs_found |-> 0, jobs_added |-> 0,
           scrape_ended_at |-> "null", error_message |-> "null"]

\* Job(**job_data): status defaults to 'pending'.
NewJob(u) == [job_board_url |-> u, status |-> "pending"]

\* self.db.query(Job).filter(Job.job_board_url == url).first()
JobExistsMutNever(u) == FALSE
JobExists(u) == \E i \in 1..Len(jobs) : jobs[i].job_board_url = u

\* job_board_url is unique=True: a commit that would store a second row
\* with the same URL raises IntegrityError.
UniqueViolationMutNone(u) == FALSE
UniqueViolation(u) == \E i \in 1..Len(jobs) : jobs[i].job_board_url = u

StoredUrls == {jobs[i].job_board_url : i \in 1..Len(jobs)}

\* JobScraperService(db).scrape_and_save_indeed(kw, loc, cap), lines
\* 18-49: the service instance owns a new IndeedScraper; the log row is
\* created with status running and committed.
ServiceStart(r, kw, loc, cap) ==
    /\ pc[r] = "idle"
    /\ Len(scraper_logs) < MaxRuns
    /\ call' = [call EXCEPT ![r] = [entry |-> "service", keywords |-> kw,
                    locations |-> loc, max_jobs |-> cap, max_pages |-> 0]]
    /\ scraper_logs' = Append(scraper_logs, NewLog)
    /\ svc' = [svc EXCEPT ![r] = [NoSvc EXCEPT !.log_id = Len(scraper_logs) + 1,
                                               !.seen = StoredUrls]]
    /\ scraper' = [scraper EXCEPT ![r] = NewScraper]
    /\ pc' = [pc EXCEPT ![r] = "indeed_scrape"]
    /\ UNCHANGED jobs

\* scrape_indeed_job: the scheduled run passes the settings.
ScrapeIndeedJob ==
    /\ ServiceStart("scheduled", scraping_keywords_list, scraping_locations_list,
                    MAX_JOBS_PER_SCRAPE)
    /\ UNCHANGED <<sched, page>>

\* trigger_indeed_scrape: each argument is given or None; lines 34-39 of
\* the service replace None by the setting.
TriggerIndeedScrape ==
    \E given \in [{"keywords", "locations", "max_jobs"} -> BOOLEAN],
       kw \in RequestKeywordLists, loc \in RequestLocationLists, cap \in Caps :
        /\ ServiceStart("manual",
              IF given["keywords"] THEN kw ELSE scraping_keywords_list,
              IF given["locations"] THEN loc ELSE scraping_locations_list,
              IF given["max_jobs"] THEN cap ELSE MAX_JOBS_PER_SCRAPE)
        /\ UNCHANGED <<sched, page>>

\* trigger_indeed_scrape called without arguments: every default applies.
TriggerIndeedScrapeDefaults ==
    /\ ServiceStart("manual", scraping_keywords_list, scraping_locations_list,
                    MAX_JOBS_PER_SCRAPE)
    /\ UNCHANGED <<sched, page>>

\* The listing the save loop is at.
JobData(r) == scraper[r].returned[svc[r].idx]

\* Lines 70-77: look the URL up; an existing job counts as a duplicate.
SaveLookupMutNoCount(r) ==
    /\ pc[r] = "save"
    /\ svc[r].idx <= Len(scraper[r].returned)
    /\ IF JobExists(JobData(r))
       THEN /\ svc' = [svc EXCEPT ![r] = [@ EXCEPT
                           !.outcome = Append(@, "duplicate"), !.idx = @ + 1]]
            /\ pc' = pc
       ELSE /\ svc' = svc
            /\ pc' = [pc EXCEPT ![r] = "insert"]
    /\ UNCHANGED <<sched, page, call, scraper, jobs, scraper_logs>>

SaveLookupMutRefresh(r) ==
    /\ pc[r] = "save"
    /\ svc[r].idx <= Len(scraper[r].returned)
    /\ IF JobExists(JobData(r))
       THEN /\ svc' = [svc EXCEPT ![r] = [@ EXCEPT !.jobs_duplicate = @ + 1,
                           !.outcome = Append(@, "duplicate"), !.idx = @ + 1]]
            /\ jobs' = [i \in 1..Len(jobs) |->
                           IF jobs[i].job_board_url = JobData(r)
                           THEN NewJob(JobData(r)) ELSE jobs[i]]
            /\ pc' = pc
       ELSE /\ svc' = svc
            /\ jobs' = jobs
            /\ pc' = [pc EXCEPT ![r] = "insert"]
    /\ UNCHANGED <<sched, page, call, scraper, scraper_logs>>
SaveLookup(r) ==
    /\ pc[r] = "save"
    /\ svc[r].idx <= Len(scraper[r].returned)
    /\ IF JobExists(JobData(r))
       THEN /\ svc' = [svc EXCEPT ![r] = [@ EXCEPT !.jobs_duplicate = @ + 1,
                           !.outcome = Append(@, "duplicate"), !.idx = @ + 1]]
            /\ pc' = pc
       ELSE /\ svc' = svc
            /\ pc' = [pc EXCEPT ![r] = "insert"]
    /\ UNCHANGED <<sched, page, call, scraper, jobs, scraper_logs>>

\* Lines 80-85: add and commit the new job.
SaveInsert(r) ==
    /\ pc[r] = "insert"
    /\ ~UniqueViolation(JobData(r))
    /\ jobs' = Append(jobs, NewJob(JobData(r)))
    /\ svc' = [svc EXCEPT ![r] = [@ EXCEPT !.jobs_added = @ + 1,
                    !.outcome = Append(@, "added"), !.idx = @ + 1]]
    /\ pc' = [pc EXCEPT ![r] = "save"]
    /\ UNCHANGED <<sched, page, call, scraper, scraper_logs>>


SaveConflictMutAdded(r) ==
    /\ pc[r] = "insert"
    /\ UniqueViolation(JobData(r))
    /\ svc' = [svc EXCEPT ![r] = [@ EXCEPT !.jobs_added = @ + 1,
                    !.outcome = Append(@, "conflict"), !.idx = @ + 1]]
    /\ pc' = [pc EXCEPT ![r] = "save"]
    /\ UNCHANGED <<sched, page, call, scraper, jobs, scraper_logs>>
\* Lines 87-90: the commit raises IntegrityError; roll back, count a
\* duplicate.
SaveConflictMutFatal(r) ==
    /\ pc[r] = "insert"
    /\ UniqueViolation(JobData(r))
    /\ scraper' = [scraper EXCEPT ![r] = [@ EXCEPT !.error = "integrity_error"]]
    /\ pc' = [pc EXCEPT ![r] = "raised"]
    /\ UNCHANGED <<sched, page, call, svc, jobs, scraper_logs>>
SaveConflict(r) ==
    /\ pc[r] = "insert"
    /\ UniqueViolation(JobData(r))
    /\ svc' = [svc EXCEPT ![r] = [@ EXCEPT !.jobs_duplicate = @ + 1,
                    !.outcome = Append(@, "conflict"), !.idx = @ + 1]]
    /\ pc' = [pc EXCEPT ![r] = "save"]
    /\ UNCHANGED <<sched, page, call, scraper, jobs, scraper_logs>>


SaveFaultMutDuplicate(r) ==
    /\ pc[r] = "insert"
    /\ svc' = [svc EXCEPT ![r] = [@ EXCEPT !.jobs_duplicate = @ + 1,
                    !.outcome = Append(@, "dropped"), !.idx = @ + 1]]
    /\ pc' = [pc EXCEPT ![r] = "save"]
    /\ UNCHANGED <<sched, page, call, scraper, jobs, scraper_logs>>
\* Lines 91-93: the commit raises another exception; roll back, log, go
\* on with the next listing.
SaveFaultMutEscape(r) ==
    /\ pc[r] = "insert"
    /\ pc' = [pc EXCEPT ![r] = "idle"]
    /\ UNCHANGED <<sched, page, call, scraper, svc, jobs, scraper_logs>>
SaveFault(r) ==
    /\ pc[r] = "insert"
    /\ svc' = [svc EXCEPT ![r] = [@ EXCEPT !.outcome = Append(@, "dropped"), !.idx = @ + 1]]
    /\ pc' = [pc EXCEPT ![r] = "save"]
    /\ UNCHANGED <<sched, page, call, scraper, jobs, scraper_logs>>

\* Lines 95-109: update the log row, commit, return the result.
ServiceCompleteMutRawCount(r) ==
    /\ pc[r] = "save"
    /\ svc[r].idx > Len(scraper[r].returned)
    /\ scraper_logs' = [scraper_logs EXCEPT ![svc[r].log_id] =
            [@ EXCEPT !.jobs_found = Len(scraper[r].jobs_scraped),
                      !.jobs_added = svc[r].jobs_added,
                      !.status = "completed"]]
    /\ svc' = [svc EXCEPT ![r] = [@ EXCEPT !.summary =
            [jobs_found |-> Len(scraper[r].jobs_scraped),
             jobs_added |-> svc[r].jobs_added,
             jobs_duplicate |-> svc[r].jobs_duplicate,
             status |-> "success"]]]
    /\ pc' = [pc EXCEPT ![r] = "done"]
    /\ UNCHANGED <<sched, page, call, scraper, jobs>>
ServiceComplete(r) ==
    /\ pc[r] = "save"
    /\ svc[r].idx > Len(scraper[r].returned)
    /\ scraper_logs' = [scraper_logs EXCEPT ![svc[r].log_id] =
            [@ EXCEPT !.jobs_found = Len(scraper[r].returned),
                      !.jobs_added = svc[r].jobs_added,
                      !.status = "completed"]]
    /\ svc' = [svc EXCEPT ![r] = [@ EXCEPT !.summary =
            [jobs_found |-> Len(scraper[r].returned),
             jobs_added |-> svc[r].jobs_added,
             jobs_duplicate |-> svc[r].jobs_duplicate,
             status |-> "success"]]]
    /\ pc' = [pc EXCEPT ![r] = "done"]
    /\ UNCHANGED <<sched, page, call, scraper, jobs>>

\* Lines 111-125: the scrape raised; mark the log row failed, commit,
\* return the error result.
ServiceFailMutCounts(r) ==
    /\ pc[r] = "raised"
    /\ call[r].entry = "service"
    /\ scraper_logs' = [scraper_logs EXCEPT ![svc[r].log_id] =
            [@ EXCEPT !.status = "failed", !.error_message = scraper[r].error,
                      !.jobs_found = Len(scraper[r].jobs_scraped)]]
    /\ svc' = [svc EXCEPT ![r] = [@ EXCEPT !.summary =
            [jobs_found |-> Len(scraper[r].jobs_scraped), jobs_added |-> 0,
             jobs_duplicate |-> 0, status |-> "error", error |-> scraper[r].error]]]
    /\ pc' = [pc EXCEPT ![r] = "done"]
    /\ UNCHANGED <<sched, page, call, scraper, jobs>>
ServiceFailMutNoUpdate(r) ==
    /\ pc[r] = "raised"
    /\ call[r].entry = "service"
    /\ svc' = [svc EXCEPT ![r] = [@ EXCEPT !.summary =
            [jobs_found |-> 0, jobs_added |-> 0, jobs_duplicate |-> 0,
             status |-> "error", error |-> scraper[r].error]]]
    /\ pc' = [pc EXCEPT ![r] = "done"]
    /\ UNCHANGED <<sched, page, call, scraper, jobs, scraper_logs>>
ServiceFail(r) ==
    /\ pc[r] = "raised"
    /\ call[r].entry = "service"
    /\ scraper_logs' = [scraper_logs EXCEPT ![svc[r].log_id] =
            [@ EXCEPT !.status = "failed", !.error_message = scraper[r].error]]
    /\ svc' = [svc EXCEPT ![r] = [@ EXCEPT !.summary =
            [jobs_found |-> 0, jobs_added |-> 0, jobs_duplicate |-> 0,
             status |-> "error", error |-> scraper[r].error]]]
    /\ pc' = [pc EXCEPT ![r] = "done"]
    /\ UNCHANGED <<sched, page, call, scraper, jobs>>

\* The caller has the result (trigger_indeed_scrape returns it,
\* scrape_indeed_job logs it and closes its session); the thread is free
\* for its next call.
Return(r) ==
    /\ \/ pc[r] = "done"
       \/ pc[r] \in {"returned", "raised"} /\ call[r].entry # "service"
    /\ pc' = [pc EXCEPT ![r] = "idle"]
    /\ call' = [call EXCEPT ![r] = NoCall]
    /\ scraper' = [scraper EXCEPT ![r] = NewScraper]
    /\ svc' = [svc EXCEPT ![r] = NoSvc]
    /\ UNCHANGED <<sched, page, jobs, scraper_logs>>

IndeedScrape(r) ==
    \/ IndeedScrapeInit(r)
    \/ IndeedIterate(r)
    \/ IndeedNextKeyword(r)
    \/ IndeedFault(r)
    \/ IndeedReturn(r)

\* The steps of the service after the scrape when no other session writes:
\* the lookup of line 70 then sees every stored URL, and the IntegrityError
\* branch (lines 87-90) cannot be taken.
ServiceAlone(r) ==
    \/ SaveLookup(r)
    \/ SaveInsert(r)
    \/ SaveFault(r)
    \/ ServiceComplete(r)
    \/ ServiceFail(r)

Service(r) ==
    \/ ServiceAlone(r)
    \/ SaveConflict(r)

\* The scheduled run and a manual run with the same settings, concurrently.
Next ==
    \/ ScrapeIndeedJob
    \/ TriggerIndeedScrapeDefaults
    \/ \E r \in Callers : IndeedScrape(r) \/ Service(r) \/ Return(r)

Spec == Init /\ [][Next]_vars

\* Manual runs one after the other, with every argument combination.
NextService ==
    \/ TriggerIndeedScrape
    \/ IndeedScrape("manual")
    \/ ServiceAlone("manual")
    \/ Return("manual")

SpecService == Init /\ [][NextService]_vars



\* ----------------------------------- one IndeedScraper object, reused
\* A direct call of _init_driver, in the object's history.
InitEvent(ok) ==
    [ev |-> "init", keyword |-> "", location |-> "", start |-> 0, ok |-> ok]

\* scraper._init_driver() called by the owner of the object; an exception
\* goes to the caller.
InitDriverCall(r) ==
    /\ pc[r] = "idle"
    /\ Len(scraper[r].trace) < MaxDirect
    /\ \E how \in {"ok", "no_session", "script"} :
         scraper' = [scraper EXCEPT ![r] =
             [InitDriver(@, how) EXCEPT
                 !.trace = Append(@, InitEvent(~InitRaises(scraper[r], how)))]]
    /\ UNCHANGED <<pc, call, svc, jobs, scraper_logs, sched, page>>

\* scraper.scrape_search_page(url) called by the owner of the object.
ScrapeSearchPageCall(r) ==
    /\ pc[r] = "idle"
    /\ Len(scraper[r].trace) < MaxDirect
    /\ \E how \in PageHows(scraper[r]), res \in DirectPageResults :
         /\ how # "ok" => res = <<>>
         /\ scraper' = [scraper EXCEPT ![r] =
                ScrapeSearchPage(@, "k1", "l1", 0, how, res).s]
    /\ UNCHANGED <<pc, call, svc, jobs, scraper_logs, sched, page>>

\* scraper.scrape(kw, loc, cap) called on the same object, whatever state
\* its session is in.
ScrapeCall(r) ==
    /\ pc[r] = "idle"
    /\ scraper[r].closes < MaxScrapes
    /\ \E kw \in RequestKeywordLists, loc \in RequestLocationLists, cap \in Caps :
         call' = [call EXCEPT ![r] = [entry |-> "indeed", keywords |-> kw,
                     locations |-> loc, max_jobs |-> cap, max_pages |-> 0]]
    /\ pc' = [pc EXCEPT ![r] = "indeed_scrape"]
    /\ UNCHANGED <<scraper, svc, jobs, scraper_logs, sched, page>>

\* scrape has returned or raised; the object stays, with its session
\* counters, and the history of the finished call is dropped.
ScrapeCallEnd(r) ==
    /\ pc[r] \in {"returned", "raised"}
    /\ pc' = [pc EXCEPT ![r] = "idle"]
    /\ call' = [call EXCEPT ![r] = NoCall]
    /\ scraper' = [scraper EXCEPT ![r] =
            [@ EXCEPT !.trace = <<>>, !.returned = <<>>, !.error = "none"]]
    /\ UNCHANGED <<svc, jobs, scraper_logs, sched, page>>

NextSession ==
    \/ InitDriverCall("direct")
    \/ ScrapeSearchPageCall("direct")
    \/ ScrapeCall("direct")
    \/ IndeedScrape("direct")
    \/ ScrapeCallEnd("direct")

SpecSession == Init /\ [][NextSession]_vars
\* ------------------------------------------------------- api/jobs.py
\* mark_job_closed(job_id) of the application-management layer, for a
\* job_id that exists: the row's status becomes 'closed'.
MarkJobClosed ==
    /\ \E job_id \in 1..Len(jobs) :
         jobs' = [jobs EXCEPT ![job_id] = [@ EXCEPT !.status = "closed"]]
    /\ UNCHANGED <<pc, call, scraper, svc, scraper_logs, sched, page>>

\* Manual runs one after the other while the application-management layer
\* closes stored jobs.
NextPosting ==
    \/ NextService
    \/ MarkJobClosed

SpecPosting == Init /\ [][NextPosting]_vars
BaseScrape(r) ==
    \/ BaseIterate(r)
    \/ BaseNextKeyword(r)
    \/ BaseFault(r)
    \/ BaseReturn(r)

PagScrape(r) ==
    \/ PagIterate(r)
    \/ PagNextLocation(r)
    \/ PagNextKeyword(r)
    \/ PagFault(r)
    \/ PagReturn(r)

\* ------------------------------------------------- tasks/scheduler.py
\* The job add_job registers: id 'scrape_indeed', next_run_time = now.
ScrapeIndeedTrigger(now) == [id |-> "scrape_indeed", next_run_time |-> now]

\* add_job(..., replace_existing=True) on the job store: a job with the
\* same id is replaced in place, another is appended.
RealAddJobMutAppend(store, job) == Append(store, job)
RealAddJob(store, job) ==
    IF \E i \in 1..Len(store) : store[i].id = job.id
    THEN [i \in 1..Len(store) |-> IF store[i].id = job.id THEN job ELSE store[i]]
    ELSE Append(store, job)

\* start_scheduler, with SCRAPING_ENABLED as it is at the call.  Disabled:
\* return.  Enabled: add_job, then scheduler.start(), which raises
\* SchedulerAlreadyRunningError when the scheduler is running.
StartSchedulerMutIgnoreFlag ==
    /\ ~sched.stopping
    /\ Len(sched.calls) < MaxCalls
    /\ \E enabled \in BOOLEAN :
         LET store == RealAddJob(sched.jobstore, ScrapeIndeedTrigger(sched.now)) IN
         IF sched.running
         THEN sched' = [sched EXCEPT !.calls = Append(@, IF enabled THEN "start_on" ELSE "start_off"),
                     !.jobstore = store,
                     !.errors = @ \cup {"SchedulerAlreadyRunningError"}]
         ELSE sched' = [sched EXCEPT !.calls = Append(@, IF enabled THEN "start_on" ELSE "start_off"),
                     !.jobstore = store, !.running = TRUE]
    /\ UNCHANGED <<pc, call, scraper, svc, jobs, scraper_logs, page>>
StartScheduler ==
    /\ ~sched.stopping
    /\ Len(sched.calls) < MaxCalls
    /\ \E enabled \in BOOLEAN :
         LET store == RealAddJob(sched.jobstore, ScrapeIndeedTrigger(sched.now)) IN
         IF ~enabled
         THEN sched' = [sched EXCEPT !.calls = Append(@, "start_off")]
         ELSE IF sched.running
         THEN sched' = [sched EXCEPT !.calls = Append(@, "start_on"),
                     !.jobstore = store,
                     !.errors = @ \cup {"SchedulerAlreadyRunningError"}]
         ELSE sched' = [sched EXCEPT !.calls = Append(@, "start_on"),
                     !.jobstore = store, !.running = TRUE]
    /\ UNCHANGED <<pc, call, scraper, svc, jobs, scraper_logs, page>>

\* stop_scheduler: if scheduler.running, scheduler.shutdown(): the
\* scheduler is stopped, its job store emptied, and the call waits for
\* the worker to finish the run it is in.
StopSchedulerMutInterrupt ==
    /\ ~sched.stopping
    /\ Len(sched.calls) < MaxCalls
    /\ IF sched.running
       THEN sched' = [sched EXCEPT !.calls = Append(@, "stop"), !.running = FALSE,
                   !.jobstore = <<>>, !.stopping = TRUE]
       ELSE sched' = [sched EXCEPT !.calls = Append(@, "stop")]
    /\ pc' = [pc EXCEPT !["scheduled"] = IF @ = "idle" THEN @ ELSE "escaped"]
    /\ UNCHANGED <<call, scraper, svc, jobs, scraper_logs, page>>
StopSchedulerMutNoGuard ==
    /\ ~sched.stopping
    /\ Len(sched.calls) < MaxCalls
    /\ IF sched.running
       THEN sched' = [sched EXCEPT !.calls = Append(@, "stop"), !.running = FALSE,
                   !.jobstore = <<>>, !.stopping = TRUE]
       ELSE sched' = [sched EXCEPT !.calls = Append(@, "stop"),
                   !.errors = @ \cup {"SchedulerNotRunningError"}]
    /\ UNCHANGED <<pc, call, scraper, svc, jobs, scraper_logs, page>>
StopScheduler ==
    /\ ~sched.stopping
    /\ Len(sched.calls) < MaxCalls
    /\ IF sched.running
       THEN sched' = [sched EXCEPT !.calls = Append(@, "stop"), !.running = FALSE,
                   !.jobstore = <<>>, !.stopping = TRUE]
       ELSE sched' = [sched EXCEPT !.calls = Append(@, "stop")]
    /\ UNCHANGED <<pc, call, scraper, svc, jobs, scraper_logs, page>>

\* scheduler.shutdown() returns once the worker is idle.
StopSchedulerJoin ==
    /\ sched.stopping
    /\ pc["scheduled"] = "idle"
    /\ sched' = [sched EXCEPT !.stopping = FALSE]
    /\ UNCHANGED <<pc, call, scraper, svc, jobs, scraper_logs, page>>

\* The running scheduler has a job whose next_run_time has come.
Due ==
    /\ sched.running
    /\ \E i \in 1..Len(sched.jobstore) : sched.jobstore[i].next_run_time <= sched.now

\* The interval trigger's next fire time after a firing due at t.
NextFireTimeMutTwice(t, now) == t + 2 * SCRAPING_INTERVAL
NextFireTime(t, now) == t + (((now - t) \div SCRAPING_INTERVAL) + 1) * SCRAPING_INTERVAL

\* The job store after its due jobs were processed.
Rescheduled ==
    [i \in 1..Len(sched.jobstore) |->
        IF sched.jobstore[i].next_run_time <= sched.now
        THEN [sched.jobstore[i] EXCEPT !.next_run_time = NextFireTime(@, sched.now)]
        ELSE sched.jobstore[i]]

\* Time passes; the scheduler thread wakes at every due time.
Tick ==
    /\ sched.now < MaxTime
    /\ ~Due
    /\ sched' = [sched EXCEPT !.now = @ + 1]
    /\ UNCHANGED <<pc, call, scraper, svc, jobs, scraper_logs, page>>

\* The trigger is due and the worker is free: scrape_indeed_job starts,
\* opens its session (line 18) and calls the service with the settings.
FireScrapeIndeedJob ==
    /\ Due
    /\ ServiceStart("scheduled", scraping_keywords_list, scraping_locations_list,
                    MAX_JOBS_PER_SCRAPE)
    /\ sched' = [sched EXCEPT !.jobstore = Rescheduled,
                              !.fire_times = Append(@, sched.now),
                              !.db_opened = @ + 1]
    /\ UNCHANGED page

\* The trigger is due while the previous run is still going: the job was
\* added with the default max_instances of 1, the firing is skipped.
SkipScrapeIndeedJob ==
    /\ Due
    /\ pc["scheduled"] # "idle"
    /\ sched' = [sched EXCEPT !.jobstore = Rescheduled,
                              !.skipped = Append(@, sched.now)]
    /\ UNCHANGED <<pc, call, scraper, svc, jobs, scraper_logs, page>>

\* Lines 111-117 when the commit of line 117 raises as well (the database
\* is gone): the row stays as it is and the exception leaves the service.
ServiceFailEscape(r) ==
    /\ pc[r] = "raised"
    /\ call[r].entry = "service"
    /\ scraper' = [scraper EXCEPT ![r] = [@ EXCEPT !.error = "commit_error"]]
    /\ pc' = [pc EXCEPT ![r] = "escaped"]
    /\ UNCHANGED <<sched, page, call, svc, jobs, scraper_logs>>

\* scrape_indeed_job, lines 28-33: log the result, or catch and log the
\* exception; finally db.close().
ScrapeIndeedJobEndMutLeak ==
    /\ pc["scheduled"] \in {"done", "escaped"}
    /\ pc' = [pc EXCEPT !["scheduled"] = "idle"]
    /\ call' = [call EXCEPT !["scheduled"] = NoCall]
    /\ scraper' = [scraper EXCEPT !["scheduled"] = NewScraper]
    /\ svc' = [svc EXCEPT !["scheduled"] = NoSvc]
    /\ sched' = [sched EXCEPT
            !.db_closed = IF pc["scheduled"] = "escaped" THEN @ ELSE @ + 1,
            !.callback_errors = IF pc["scheduled"] = "escaped" THEN @ + 1 ELSE @]
    /\ UNCHANGED <<jobs, scraper_logs, page>>
ScrapeIndeedJobEnd ==
    /\ pc["scheduled"] \in {"done", "escaped"}
    /\ pc' = [pc EXCEPT !["scheduled"] = "idle"]
    /\ call' = [call EXCEPT !["scheduled"] = NoCall]
    /\ scraper' = [scraper EXCEPT !["scheduled"] = NewScraper]
    /\ svc' = [svc EXCEPT !["scheduled"] = NoSvc]
    /\ sched' = [sched EXCEPT
            !.db_closed = @ + 1,
            !.callback_errors = IF pc["scheduled"] = "escaped" THEN @ + 1 ELSE @]
    /\ UNCHANGED <<jobs, scraper_logs, page>>

\* The application's scheduler: lifespan (or any other caller) starts and
\* stops it, time passes, and the worker runs the callback.
NextSched ==
    \/ StartScheduler
    \/ StopScheduler
    \/ StopSchedulerJoin
    \/ Tick
    \/ FireScrapeIndeedJob
    \/ SkipScrapeIndeedJob
    \/ IndeedScrape("scheduled")
    \/ ServiceAlone("scheduled")
    \/ ServiceFailEscape("scheduled")
    \/ ScrapeIndeedJobEnd

SpecSched == Init /\ [][NextSched]_vars

\* The steps of the worker thread that runs the callback.
Worker ==
    \/ IndeedScrape("scheduled")
    \/ ServiceAlone("scheduled")
    \/ ServiceFailEscape("scheduled")
    \/ ScrapeIndeedJobEnd

\* The worker thread keeps running its callback whatever the scheduler's
\* state, and shutdown returns once the worker is idle.
SpecSchedFair == SpecSched /\ WF_vars(Worker) /\ WF_vars(StopSchedulerJoin)

\* ------------------------------------------------- parse_job_listing
\* Strings the parser builds on are sequences of pieces.
base_url == <<"https://uk.indeed.com">>
\* The href values a title link carries: empty, relative, absolute.
Hrefs == {<<>>, <<"/", "rc/clk?jk=1">>, <<"https://uk.indeed.com", "/", "rc/clk?jk=1">>}

\* A job card as parse_job_listing sees it.  title: what the two lookups
\* of lines 121-123 find: nothing, an h2.jobTitle with an <a> inside
\* ("h2_a"), an h2.jobTitle without one ("h2"), or an a.jcs-JobTitle
\* ("a_jcs").  has_href/href: the href attribute of that <a>.  company,
\* location, salary, description: whether the element is found.  broken:
\* reading the card raises.
Cards ==
    {c \in [title : {"none", "h2_a", "h2", "a_jcs"}, has_href : BOOLEAN, href : Hrefs,
            company : BOOLEAN, location : BOOLEAN, salary : BOOLEAN,
            description : BOOLEAN, broken : BOOLEAN] :
        /\ ~c.has_href => c.href = <<>>
        /\ c.title \in {"none", "h2"} => ~c.has_href}

\* title_link.get('href', ''): the h2 without an <a> is its own
\* title_link and has no href.
JobLink(c) == IF c.title \in {"h2_a", "a_jcs"} /\ c.has_href THEN c.href ELSE <<>>

\* job_link.startswith('/')
StartsWithSlash(s) == Len(s) > 0 /\ s[1] = "/"

\* parse_job_listing(card): <<>> for None, <<job_data>> for a job.
ParseJobListing(c) ==
    IF c.broken THEN <<>>
    ELSE IF c.title = "none" THEN <<>>
    ELSE << [job_title |-> "title",
             job_board_url |-> IF StartsWithSlash(JobLink(c))
                               THEN base_url \o JobLink(c) ELSE JobLink(c),
             company |-> IF c.company THEN "company" ELSE "Unknown Company",
             location |-> IF c.location THEN "location" ELSE "Location not specified",
             salary_range |-> IF c.salary THEN "salary" ELSE "None",
             description |-> IF c.description THEN "description" ELSE "",
             job_board_source |-> "indeed",
             requirements |-> "None"] >>

\* scrape_search_page has loaded a page and found its cards (lines 76-101).
LoadPage ==
    /\ page.state = "none"
    /\ \E cards \in SeqsUpTo(Cards, MaxCards) :
         page' = [state |-> "parsing", cards |-> cards, jobs |-> <<>>, i |-> 1]
    /\ UNCHANGED <<pc, call, scraper, svc, jobs, scraper_logs, sched>>

\* Lines 103-106: parse the next card, keep the job if there is one.
ParseCard ==
    /\ page.state = "parsing"
    /\ page.i <= Len(page.cards)
    /\ page' = [page EXCEPT !.jobs = @ \o ParseJobListing(page.cards[page.i]),
                            !.i = @ + 1]
    /\ UNCHANGED <<pc, call, scraper, svc, jobs, scraper_logs, sched>>

\* Line 111: return jobs.
PageReturn ==
    /\ page.state = "parsing"
    /\ page.i > Len(page.cards)
    /\ page' = [page EXCEPT !.state = "returned"]
    /\ UNCHANGED <<pc, call, scraper, svc, jobs, scraper_logs, sched>>

NextParse == LoadPage \/ ParseCard \/ PageReturn

SpecParse == Init /\ [][NextParse]_vars

\* Direct calls of the orchestrators, one after the other.
NextScrape ==
    \/ DirectCall("direct")
    \/ BaseScrape("direct")
    \/ IndeedScrape("direct")
    \/ PagScrape("direct")
    \/ Return("direct")

SpecScrape == Init /\ [][NextScrape]_vars

\* ================================================================ claims
Returned(r) == scraper[r].returned
LogRow(r) == scraper_logs[svc[r].log_id]
Terminal == {"completed", "failed"}
RowsWithUrl(u) == Cardinality({i \in 1..Len(jobs) : jobs[i].job_board_url = u})
\* The listings of r's run whose URL was stored before the run began.
Overlap(r) == {k \in 1..Len(Returned(r)) : Returned(r)[k] \in svc[r].seen}
\* The listings of r's run for URL u that ended as outcome o.
Outcomes(r, u, o) ==
    {k \in 1..Len(svc[r].outcome) : Returned(r)[k] = u /\ svc[r].outcome[k] = o}
InFlight(r) == call[r].entry = "service" /\ pc[r] \notin {"idle", "done"}

\* C1: in every reachable state the jobs table holds at most one row per
\* job_board_url, whatever the runs and however their listings repeat.
C1_OneJobPerUrl ==
    \A i, j \in 1..Len(jobs) :
        i # j => jobs[i].job_board_url # jobs[j].job_board_url

\* A run whose listings name the same URL twice has finished, and the URL
\* is stored.
C1_Witness ==
    \E r \in Callers :
        /\ pc[r] = "done"
        /\ Len(Returned(r)) = 2
        /\ Returned(r)[1] = Returned(r)[2]
        /\ RowsWithUrl(Returned(r)[1]) = 1

C3_Counts ==
    \A u \in Urls :
        LET a == "scheduled"
            b == "manual"
            Listed(r) == \E k \in 1..Len(Returned(r)) : Returned(r)[k] = u
            NDup(r) == Cardinality(Outcomes(r, u, "duplicate"))
                       + Cardinality(Outcomes(r, u, "conflict"))
            NAdded(r) == Cardinality(Outcomes(r, u, "added"))
        IN  ( /\ pc[a] \in {"save", "insert", "done"}
              /\ pc[b] \in {"save", "insert", "done"}
              /\ svc[a].idx > Len(Returned(a))
              /\ svc[b].idx > Len(Returned(b))
              /\ Listed(a) /\ Listed(b)
              /\ u \notin svc[a].seen \cup svc[b].seen
              /\ Outcomes(a, u, "dropped") = {}
              /\ Outcomes(b, u, "dropped") = {} )
            =>
            /\ NAdded(a) + NAdded(b) = 1
            /\ RowsWithUrl(u) = 1
            /\ NAdded(a) + NDup(a) = CountIn(Returned(a), u)
            /\ NAdded(b) + NDup(b) = CountIn(Returned(b), u)
            /\ svc[a].jobs_added >= NAdded(a) /\ svc[a].jobs_duplicate >= NDup(a)
            /\ svc[b].jobs_added >= NAdded(b) /\ svc[b].jobs_duplicate >= NDup(b)
            /\ \A r \in {a, b} :
                  pc[r] = "done" => /\ LogRow(r).status = "completed"
                                    /\ svc[r].summary.status = "success"

\* A run ends failed only when its scrape raised, before any listing was
\* looked up: no lookup or insert makes a run fail.
C3_NoFailure ==
    \A r \in Callers :
        (pc[r] = "done" /\ LogRow(r).status = "failed") =>
            /\ scraper[r].error \in {"driver_error", "loop_error"}
            /\ svc[r].outcome = <<>>

\* C3: two concurrent runs that both discover a URL not yet stored: under
\* every interleaving exactly one stores it and counts it added, the other
\* counts it duplicate, and neither run ends failed because of it.
C3_ConcurrentDiscovery == C3_Counts /\ C3_NoFailure

\* Both runs looked the URL up before either stored it: one added it, the
\* other met the IntegrityError, and both are done.
C3_Witness ==
    \E u \in Urls :
        /\ pc["scheduled"] = "done" /\ pc["manual"] = "done"
        /\ Outcomes("scheduled", u, "added") # {}
        /\ Outcomes("manual", u, "conflict") # {}
        /\ LogRow("scheduled").status = "completed"
        /\ LogRow("manual").status = "completed"

\* C4: a run that has returned left its scraper_logs row completed or
\* failed, a row is running only while its run is in flight, and every
\* invocation creates exactly one row.
C4_State ==
    /\ \A r \in Callers : pc[r] = "done" => LogRow(r).status \in Terminal
    /\ \A i \in 1..Len(scraper_logs) :
          scraper_logs[i].status = "running" =>
              \E r \in Callers : InFlight(r) /\ svc[r].log_id = i
    /\ \A r, q \in Callers :
          (r # q /\ pc[r] # "idle" /\ pc[q] # "idle") => svc[r].log_id # svc[q].log_id

C4_Step ==
    Len(scraper_logs') =
        Len(scraper_logs)
        + Cardinality({r \in Callers : pc[r] = "idle" /\ pc'[r] # "idle"})

C4_RunRowFinalized == [](C4_State) /\ [][C4_Step]_vars

\* A run that failed has returned.
C4_Witness ==
    \E r \in Callers :
        /\ pc[r] = "done"
        /\ svc[r].summary.status = "error"
        /\ LogRow(r).status = "failed"

\* C5: a scraper_logs row has scrape_ended_at set exactly when its status
\* is completed or failed.
C5_EndedWithTerminal ==
    \A i \in 1..Len(scraper_logs) :
        (scraper_logs[i].scrape_ended_at # "null") <=> (scraper_logs[i].status \in Terminal)

\* C6: IndeedScraper.scrape and scrape_with_pagination open at most one
\* session, quit nothing while the loops run, and once they have returned
\* or raised the session they opened has been quit exactly once, none is
\* open, and _close_driver ran once.
C6_SessionClosedOnce ==
    \A r \in Procs :
        call[r].entry \in {"indeed", "paginated"} =>
            /\ scraper[r].opened <= 1
            /\ scraper[r].quits <= scraper[r].opened
            /\ (scraper[r].driver = "open") <=> (scraper[r].opened = scraper[r].quits + 1)
            /\ pc[r] \in {"indeed_scrape", "indeed_loop", "pag_loop"} =>
                  scraper[r].quits = 0 /\ scraper[r].closes = 0
            /\ pc[r] \in {"returned", "raised"} =>
                  /\ scraper[r].driver = "none"
                  /\ scraper[r].quits = scraper[r].opened
                  /\ scraper[r].closes = 1

\* A paginated scrape opened a session, an exception escaped its loop, and
\* the session was quit.
C6_Witness ==
    \E r \in Procs :
        /\ call[r].entry = "paginated"
        /\ pc[r] = "raised"
        /\ scraper[r].opened = 1
        /\ scraper[r].quits = 1

\* The run of r failed because the session could not be created.
DriverFailed(r) == pc[r] = "done" /\ scraper[r].error = "driver_error"

\* Claim C7 as written: such a run returns found 0, added 0, duplicate 0,
\* status "failed" and the error, its row is failed with that error, and
\* _close_driver ran.
C7_SummaryFailed ==
    \A r \in Callers :
        DriverFailed(r) =>
            /\ svc[r].summary = [jobs_found |-> 0, jobs_added |-> 0, jobs_duplicate |-> 0,
                                 status |-> "failed", error |-> "driver_error"]
            /\ LogRow(r).status = "failed"
            /\ LogRow(r).error_message = "driver_error"
            /\ scraper[r].closes = 1

\* C7: such a run returns found 0, added 0, duplicate 0, status "error"
\* and the error, its row is failed with that error, no page was
\* requested, and _close_driver ran.
C7_SummaryError ==
    \A r \in Callers :
        DriverFailed(r) =>
            /\ svc[r].summary = [jobs_found |-> 0, jobs_added |-> 0, jobs_duplicate |-> 0,
                                 status |-> "error", error |-> "driver_error"]
            /\ LogRow(r).status = "failed"
            /\ LogRow(r).error_message = "driver_error"
            /\ scraper[r].trace = <<>>
            /\ scraper[r].closes = 1
            /\ scraper[r].driver = "none"

\* webdriver.Chrome raised: no session ever existed, and the run is done.
C7_Witness ==
    \E r \in Callers : DriverFailed(r) /\ scraper[r].opened = 0

\* Claim C8 as written: a returned list has at most max_jobs listings.
C8_AtMostCap ==
    \A r \in Procs :
        (call[r].entry # "service" /\ pc[r] = "returned") =>
            Len(Returned(r)) <= call[r].max_jobs

\* C8: a returned list has at most max_jobs listings when max_jobs >= 0,
\* and none when max_jobs < 0.
C8_AtMostCapOrEmpty ==
    \A r \in Procs :
        (call[r].entry # "service" /\ pc[r] = "returned") =>
            Len(Returned(r)) <= Max(call[r].max_jobs, 0)

\* More listings were collected than the cap allows, and the list handed
\* back is cut to the cap.
C8_Witness ==
    \E r \in Procs :
        /\ call[r].entry # "service"
        /\ pc[r] = "returned"
        /\ call[r].max_jobs >= 1
        /\ Len(scraper[r].jobs_scraped) > call[r].max_jobs
        /\ Len(Returned(r)) = call[r].max_jobs

\* The page requests of r's scrape, in the order they were issued.
Requests(r) == SelectSeq(scraper[r].trace, LAMBDA e : e.ev = "get")
\* The i-th pair of K x L in keyword-major, location-minor order.
CrossPair(K, L, i) == <<K[((i - 1) \div Len(L)) + 1], L[((i - 1) % Len(L)) + 1]>>

\* C9: BaseScraper.scrape and IndeedScraper.scrape request the pairs in
\* keyword-major, location-minor order, each at most once, and all
\* |K| x |L| of them when the scrape returns with the cap not reached and
\* no exception out of the loop.
C9_CrossProductOrder ==
    \A r \in Procs :
        call[r].entry \in {"base", "indeed"} =>
            LET K == call[r].keywords
                L == call[r].locations
                req == Requests(r)
            IN  /\ Len(req) <= Len(K) * Len(L)
                /\ \A i \in 1..Len(req) :
                      <<req[i].keyword, req[i].location>> = CrossPair(K, L, i)
                /\ ( /\ pc[r] = "returned"
                      /\ scraper[r].error = "none"
                      /\ Len(scraper[r].jobs_scraped) < call[r].max_jobs )
                    => Len(req) = Len(K) * Len(L)

\* IndeedScraper.scrape returned after requesting all four pairs of two
\* keywords and two locations.
C9_Witness ==
    \E r \in Procs :
        /\ call[r].entry = "indeed"
        /\ pc[r] = "returned"
        /\ call[r].keywords = <<"k1", "k2">>
        /\ call[r].locations = <<"l1", "l2">>
        /\ Len(Requests(r)) = 4
        /\ Len(scraper[r].jobs_scraped) < call[r].max_jobs

\* A run that finished with no exception out of the scrape, whatever pages
\* failed to load, is completed, and requested every pair unless it
\* reached the cap.
C10_State ==
    \A r \in Callers :
        (pc[r] = "done" /\ scraper[r].error = "none") =>
            /\ LogRow(r).status = "completed"
            /\ svc[r].summary.status = "success"
            /\ Len(scraper[r].jobs_scraped) < call[r].max_jobs =>
                  Len(Requests(r)) = Len(call[r].keywords) * Len(call[r].locations)

\* A page load that fails adds nothing to the accumulator, raises nothing,
\* and leaves the loop at the next pair.
C10_Step ==
    \A r \in Callers :
        scraper'[r].page_faults > scraper[r].page_faults =>
            /\ pc'[r] = pc[r]
            /\ scraper'[r].error = "none"
            /\ scraper'[r].jobs_scraped = scraper[r].jobs_scraped
            /\ scraper'[r].li = scraper[r].li + 1

\* C10: a page whose load or readiness wait fails yields no listings and
\* raises nothing, the loop goes on with the next pair, and the run ends
\* completed when no exception leaves the scrape.
C10_PageFaultTolerated == [](C10_State) /\ [][C10_Step]_vars

\* The first page failed to load, the second yielded a listing, and the
\* run is completed.
C10_Witness ==
    \E r \in Callers :
        /\ pc[r] = "done"
        /\ Len(Requests(r)) = 2
        /\ ~Requests(r)[1].ok
        /\ Requests(r)[2].ok
        /\ Len(Returned(r)) >= 1
        /\ LogRow(r).status = "completed"

\* The listings of r's run that ended as outcome o.
NOutcome(r, o) == Cardinality({k \in 1..Len(svc[r].outcome) : svc[r].outcome[k] = o})

\* What a caller can see of a finished run: the four fields, counts that
\* are numbers, and a status; the page, duplicate and single-record faults
\* leave the status "success".
C11_State ==
    \A r \in Callers :
        pc[r] = "done" =>
            LET s == svc[r].summary IN
            /\ {"jobs_found", "jobs_added", "jobs_duplicate", "status"} \subseteq DOMAIN s
            /\ s.jobs_found \in Nat /\ s.jobs_added \in Nat /\ s.jobs_duplicate \in Nat
            /\ s.status \in {"success", "error"}
            /\ scraper[r].error = "none" => s.status = "success"

\* A run gives control back to its caller only with the summary, and a
\* step on which a page fails to load, an insert meets the unique
\* constraint, or an insert fails otherwise leaves the run in its loop.
C11_Step ==
    \A r \in Callers :
        /\ (pc[r] # "idle" /\ pc'[r] = "idle") =>
              pc[r] = "done" /\ svc[r].summary.status # "none"
        /\ (pc[r] # "idle" /\ scraper'[r].page_faults > scraper[r].page_faults) =>
              pc'[r] = "indeed_loop"
        /\ (pc[r] # "idle" /\ Len(svc'[r].outcome) > Len(svc[r].outcome)) =>
              pc'[r] = "save"

\* C11: scrape_and_save_indeed always hands its caller a summary with
\* found, added, duplicate and status; a page fault, a listing that does
\* not parse, a duplicate URL or a storage fault on one record never
\* raises to the caller.
C11_AlwaysSummary == [](C11_State) /\ [][C11_Step]_vars

\* One run met the unique constraint on one listing and a storage fault on
\* another, and returned a success summary.
C11_Witness ==
    \E r \in Callers :
        /\ pc[r] = "done"
        /\ NOutcome(r, "conflict") = 1
        /\ NOutcome(r, "dropped") = 1
        /\ svc[r].summary.status = "success"
        /\ svc[r].summary.jobs_found = 2

\* The run of r ended with the scrape having returned.
Succeeded(r) == pc[r] = "done" /\ scraper[r].error = "none"

\* The row and the summary of a run whose scrape returned, with the
\* summary's status left open.
SuccessCounts(r, status) ==
    /\ LogRow(r).status = "completed"
    /\ LogRow(r).jobs_found = Len(Returned(r))
    /\ LogRow(r).jobs_added = NOutcome(r, "added")
    /\ Len(jobs) = Cardinality(svc[r].seen) + NOutcome(r, "added")
    /\ svc[r].summary = [jobs_found |-> Len(Returned(r)),
                         jobs_added |-> NOutcome(r, "added"),
                         jobs_duplicate |-> NOutcome(r, "duplicate") + NOutcome(r, "conflict"),
                         status |-> status]

\* Claim C12 as written: the summary of a run whose scrape returned has
\* status "completed".
C12_SummaryCompleted == \A r \in Callers : Succeeded(r) => SuccessCounts(r, "completed")

\* C12: when the scrape returns, the row is completed with found = the
\* listings returned and added = the jobs inserted, and the summary has
\* the same found and added, the duplicate count, and status "success".
C12_SummarySuccess == \A r \in Callers : Succeeded(r) => SuccessCounts(r, "success")

\* More listings were collected than the cap, the store was empty, and
\* the run reports found = added = cap, duplicate 0.
C12_Witness ==
    \E r \in Callers :
        /\ Succeeded(r)
        /\ svc[r].seen = {}
        /\ call[r].max_jobs = 1
        /\ Len(scraper[r].jobs_scraped) = 2
        /\ svc[r].summary.jobs_found = 1
        /\ svc[r].summary.jobs_added = 1
        /\ svc[r].summary.jobs_duplicate = 0

\* The run of r ended with the scrape having raised.
Failed(r) == pc[r] = "done" /\ scraper[r].error # "none"

\* Claim C13 as written: a failed run reports as found the listings
\* extracted before the fault and as added the jobs it had inserted.
C13_CountsAccumulated ==
    \A r \in Callers :
        Failed(r) =>
            /\ LogRow(r).status = "failed"
            /\ LogRow(r).error_message = scraper[r].error
            /\ LogRow(r).jobs_found = Len(scraper[r].jobs_scraped)
            /\ svc[r].summary.jobs_found = Len(scraper[r].jobs_scraped)
            /\ LogRow(r).jobs_added = NOutcome(r, "added")
            /\ svc[r].summary.jobs_added = NOutcome(r, "added")

\* C13: a failed run has its row failed with the error stored, and found
\* and added are 0 in the row and in the summary whatever was extracted
\* before the fault; the run inserted no job.
C13_CountsZero ==
    \A r \in Callers :
        Failed(r) =>
            /\ LogRow(r).status = "failed"
            /\ LogRow(r).error_message = scraper[r].error
            /\ LogRow(r).jobs_found = 0 /\ LogRow(r).jobs_added = 0
            /\ svc[r].summary.jobs_found = 0 /\ svc[r].summary.jobs_added = 0
            /\ svc[r].summary.jobs_duplicate = 0
            /\ svc[r].outcome = <<>>
            /\ Len(jobs) = Cardinality(svc[r].seen)

\* The first page yielded a listing, an exception left the loop at the
\* second pair, and the run is failed.
C13_Witness ==
    \E r \in Callers :
        /\ Failed(r)
        /\ scraper[r].error = "loop_error"
        /\ Len(scraper[r].jobs_scraped) >= 1
        /\ LogRow(r).status = "failed"

\* The scheduled callback is not running.
CallbackIdle == pc["scheduled"] = "idle"

\* Every session scrape_indeed_job opened is closed once the callback has
\* ended, and only the callback's own run holds one open.
C14_State ==
    /\ CallbackIdle => sched.db_closed = sched.db_opened
    /\ ~CallbackIdle => sched.db_opened = sched.db_closed + 1
    /\ sched.db_opened = Len(sched.fire_times)

\* Whatever the scrape or the service raised, the callback ends by going
\* back to idle with the scheduler as it was: still running if it was,
\* its job still stored with its next run time.
C14_Step ==
    (~CallbackIdle /\ pc'["scheduled"] = "idle") =>
        /\ pc["scheduled"] \in {"done", "escaped"}
        /\ sched'.running = sched.running
        /\ sched'.jobstore = sched.jobstore
        /\ sched'.errors = sched.errors
        /\ sched'.db_closed = sched.db_closed + 1

\* C14: a fault of the scrape inside a scheduled run never leaves
\* scrape_indeed_job: the callback returns on every path, with its
\* session closed, and the trigger stays scheduled.
C14_CallbackContains == [](C14_State) /\ [][C14_Step]_vars

\* The first scheduled run failed in the scrape, the callback closed its
\* session, and the trigger fired again an interval later.
C14_Witness ==
    /\ Len(scraper_logs) = 2
    /\ scraper_logs[1].status = "failed"
    /\ sched.fire_times = <<0, SCRAPING_INTERVAL>>
    /\ sched.db_closed >= 1

\* The arguments of the scheduled run in flight are the settings.
UsesDefaults ==
    ~CallbackIdle =>
        /\ call["scheduled"].entry = "service"
        /\ call["scheduled"].keywords = scraping_keywords_list
        /\ call["scheduled"].locations = scraping_locations_list
        /\ call["scheduled"].max_jobs = MAX_JOBS_PER_SCRAPE

\* The stored job of the running scheduler is never overdue: its next run
\* time has not passed without being processed.
NeverOverdue ==
    sched.running =>
        \A i \in 1..Len(sched.jobstore) : sched.jobstore[i].next_run_time >= sched.now

\* An enabled start stores the job due now; processing a due time moves
\* the job one interval on.
Schedule ==
    /\ (Len(sched'.calls) > Len(sched.calls) /\ sched'.calls[Len(sched'.calls)] = "start_on") =>
          sched'.jobstore = <<ScrapeIndeedTrigger(sched.now)>>
    /\ (sched'.fire_times # sched.fire_times \/ sched'.skipped # sched.skipped) =>
          /\ sched.jobstore = <<ScrapeIndeedTrigger(sched.now)>>
          /\ sched'.jobstore = <<ScrapeIndeedTrigger(sched.now + SCRAPING_INTERVAL)>>

\* Claim C15 as written: every due time of the trigger starts a run.
C15_EveryIntervalFires == sched.skipped = <<>>

\* A due time starts a run exactly when the callback is idle, and is
\* skipped when the previous run is still going.
FiresWhenIdle ==
    /\ sched'.fire_times # sched.fire_times =>
          /\ CallbackIdle
          /\ sched'.fire_times = Append(sched.fire_times, sched.now)
          /\ pc'["scheduled"] = "indeed_scrape"
    /\ sched'.skipped # sched.skipped =>
          /\ ~CallbackIdle
          /\ sched'.skipped = Append(sched.skipped, sched.now)
          /\ pc' = pc /\ scraper_logs' = scraper_logs

\* C15: after an enabled start the trigger is due at once and then every
\* SCRAPING_INTERVAL; a due time starts a run with the default keywords,
\* locations and cap when the previous run has ended, and is skipped when
\* it has not.
C15_FiresEveryIntervalWhenIdle ==
    [](UsesDefaults /\ NeverOverdue) /\ [][Schedule /\ FiresWhenIdle]_vars

\* Started at 0, the trigger fired at 0 and again one interval later.
C15_Witness ==
    /\ sched.calls = <<"start_on">>
    /\ sched.fire_times = <<0, SCRAPING_INTERVAL>>
    /\ sched.skipped = <<>>
    /\ pc["scheduled"] = "indeed_scrape"

\* C16: whatever start_scheduler and stop_scheduler calls were made, the
\* job store holds at most one job, and at most one with id
\* 'scrape_indeed'.
C16_OneTrigger ==
    /\ Len(sched.jobstore) <= 1
    /\ Cardinality({i \in 1..Len(sched.jobstore) : sched.jobstore[i].id = "scrape_indeed"}) <= 1

\* start_scheduler was called on the running scheduler at a later time:
\* the stored job was replaced by the new one.
C16_Witness ==
    /\ sched.calls = <<"start_on", "start_on">>
    /\ sched.now = 1
    /\ sched.jobstore = <<ScrapeIndeedTrigger(1)>>

\* The last call made was start_scheduler with scheduling disabled.
DisabledStart ==
    /\ Len(sched'.calls) = Len(sched.calls) + 1
    /\ sched'.calls[Len(sched'.calls)] = "start_off"

\* C17: start_scheduler with SCRAPING_ENABLED false changes nothing: no
\* job is stored, the scheduler is not started, and as long as no enabled
\* start was made no run is fired.
C17_DisabledStartNoOp ==
    /\ []( ~(\E i \in 1..Len(sched.calls) : sched.calls[i] = "start_on") =>
              /\ ~sched.running
              /\ sched.jobstore = <<>>
              /\ sched.fire_times = <<>>
              /\ scraper_logs = <<>>
              /\ CallbackIdle )
    /\ [][DisabledStart =>
              /\ sched' = [sched EXCEPT !.calls = sched'.calls]
              /\ UNCHANGED <<pc, call, scraper, svc, jobs, scraper_logs>>]_vars

\* Two disabled starts were made, time went by, and nothing was fired.
C17_Witness ==
    /\ sched.calls = <<"start_off", "start_off">>
    /\ sched.now = MaxTime
    /\ sched.fire_times = <<>>

\* The last call made was stop_scheduler.
StopCalled ==
    /\ Len(sched'.calls) = Len(sched.calls) + 1
    /\ sched'.calls[Len(sched'.calls)] = "stop"

\* C18: stop_scheduler on the running scheduler stops it, and no run is
\* fired while it is stopped; on a scheduler that is not running it
\* changes nothing and raises nothing.
C18_StopIdempotent ==
    /\ [][sched'.fire_times # sched.fire_times => sched.running]_vars
    /\ [][(~sched.running /\ sched'.running) =>
              sched'.calls = Append(sched.calls, "start_on")]_vars
    /\ [][StopCalled =>
              /\ ~sched'.running
              /\ sched'.errors = sched.errors
              /\ ~sched.running =>
                    sched' = [sched EXCEPT !.calls = sched'.calls]
              /\ UNCHANGED <<pc, call, scraper, svc, jobs, scraper_logs>>]_vars

\* start, stop, stop: the second stop found the scheduler stopped.
C18_Witness ==
    /\ sched.calls = <<"start_on", "stop", "stop">>
    /\ ~sched.running
    /\ sched.errors = {}

\* While stop_scheduler waits in shutdown, or after it, the scheduler is
\* stopped and fires nothing; a run that was in flight goes on, and when
\* it returns its row is completed or failed.
C19_State ==
    /\ sched.stopping => ~sched.running
    /\ pc["scheduled"] = "done" => LogRow("scheduled").status \in Terminal

\* stop_scheduler leaves the run in flight as it is, returns only when the
\* worker is idle, and no step starts a run while the scheduler is
\* stopped.
C19_Step ==
    /\ StopCalled => UNCHANGED <<pc, call, scraper, svc, jobs, scraper_logs>>
    /\ (sched.stopping /\ ~sched'.stopping) => CallbackIdle
    /\ (~sched.running /\ ~sched'.running) => sched'.fire_times = sched.fire_times

\* C19: stopping the scheduler during a run prevents later firings and
\* does not interrupt the run, which goes on to finalize its row.
C19_StopLetsRunFinish ==
    /\ [](C19_State)
    /\ [][C19_Step]_vars
    /\ (sched.stopping /\ ~CallbackIdle) ~> (CallbackIdle /\ ~sched.stopping)

\* The scheduler was stopped while the run was in its loop; the run went
\* on and completed its row while stop_scheduler was still waiting.
C19_Witness ==
    /\ sched.calls = <<"start_on", "stop">>
    /\ sched.stopping
    /\ pc["scheduled"] = "done"
    /\ LogRow("scheduled").status = "completed"
    /\ Len(Returned("scheduled")) >= 1

\* The card lacks a title element, or its title has no link target.
LacksTitleOrLink(c) == c.title = "none" \/ JobLink(c) = <<>>

\* The cards of the page that have both a title and a link and can be read.
Usable == {k \in 1..Len(page.cards) :
              ~LacksTitleOrLink(page.cards[k]) /\ ~page.cards[k].broken}

\* C20: parse_job_listing returns None for every card that lacks a title
\* or a link: scrape_search_page returns one job for each card that has
\* both, and no job with an empty job_board_url.
C20_NoneWithoutTitleOrLink ==
    /\ \A k \in 1..Len(page.jobs) : page.jobs[k].job_board_url # <<>>
    /\ page.state = "returned" => Len(page.jobs) = Cardinality(Usable)

\* The run of r was given nothing to search for: no keyword, no location,
\* or a cap of 0 or less.
EmptyInput(r) ==
    /\ call[r].entry = "service"
    /\ \/ call[r].keywords = <<>>
       \/ call[r].locations = <<>>
       \/ call[r].max_jobs <= 0

\* Claim C21 as written: such a run requests no page, returns no listing,
\* and ends with its row completed, found 0 and added 0.
C21_EmptyCompleted ==
    \A r \in Callers :
        EmptyInput(r) =>
            /\ scraper[r].trace = <<>>
            /\ pc[r] = "done" =>
                  /\ Returned(r) = <<>>
                  /\ LogRow(r).status = "completed"
                  /\ LogRow(r).jobs_found = 0
                  /\ LogRow(r).jobs_added = 0

\* C21: a run with an empty keyword list, an empty location list or a cap
\* of 0 or less requests no page and stores nothing; when the browser
\* session could be created it returns no listing and ends completed with
\* found 0 and added 0, and when the session could not be created it ends
\* failed.
C21_EmptyCompletedIfSession ==
    \A r \in Callers :
        EmptyInput(r) =>
            /\ scraper[r].trace = <<>>
            /\ svc[r].outcome = <<>>
            /\ pc[r] = "done" =>
                  /\ Returned(r) = <<>>
                  /\ LogRow(r).jobs_found = 0
                  /\ LogRow(r).jobs_added = 0
                  /\ svc[r].summary.jobs_found = 0
                  /\ svc[r].summary.jobs_added = 0
                  /\ IF scraper[r].error = "none"
                     THEN /\ LogRow(r).status = "completed"
                          /\ svc[r].summary.status = "success"
                     ELSE /\ scraper[r].error = "driver_error"
                          /\ LogRow(r).status = "failed"

\* A run with a keyword, a location and the cap 0 opened its session and
\* ended completed.
C21_Witness ==
    \E r \in Callers :
        /\ pc[r] = "done"
        /\ call[r].keywords # <<>> /\ call[r].locations # <<>>
        /\ call[r].max_jobs = 0
        /\ scraper[r].opened = 1
        /\ LogRow(r).status = "completed"

\* The step is one of the ingestion pipeline's.
PipelineStep == pc' # pc \/ svc' # svc \/ scraper' # scraper

\* The listing r's run has just settled was counted a duplicate.
Rediscovered(r) ==
    /\ Len(svc'[r].outcome) = Len(svc[r].outcome) + 1
    /\ svc'[r].outcome[Len(svc'[r].outcome)] \in {"duplicate", "conflict"}

C22_Step ==
    /\ PipelineStep =>
          /\ Len(jobs') >= Len(jobs)
          /\ \A i \in 1..Len(jobs) : jobs'[i] = jobs[i]
          /\ \A i \in (Len(jobs) + 1)..Len(jobs') : jobs'[i].status = "pending"
    /\ \A r \in Callers : Rediscovered(r) => jobs' = jobs

\* C22: no step of an ingestion run changes or removes a stored job, a
\* listing counted as a duplicate leaves the jobs table as it was, and
\* every job a run inserts has status pending.
C22_FirstSeenWins == [][C22_Step]_vars

\* A run has counted as a duplicate a listing whose stored job the
\* application-management layer had closed, and the job is still closed.
C22_Witness ==
    \E r \in Callers : \E k \in 1..Len(svc[r].outcome) : \E i \in 1..Len(jobs) :
        /\ pc[r] = "done"
        /\ svc[r].outcome[k] = "duplicate"
        /\ Returned(r)[k] \in svc[r].seen
        /\ jobs[i].job_board_url = Returned(r)[k]
        /\ jobs[i].status = "closed"

\* C23: once an exception has left the pair loop of BaseScraper.scrape or
\* IndeedScraper.scrape, the loop has stopped, the teardown has run (the
\* session of IndeedScraper is closed), and the call has raised the error
\* to its caller instead of returning a list.
C23_LoopFaultReported ==
    \A r \in Procs :
        (call[r].entry \in {"base", "indeed"} /\ scraper[r].error = "loop_error") =>
            /\ pc[r] = "raised"
            /\ scraper[r].driver = "none"
            /\ call[r].entry = "indeed" => scraper[r].closes = 1

\* The number of page requests among the first i entries of r's history.
RequestsUpTo(r, i) ==
    Cardinality({j \in 1..i : scraper[r].trace[j].ev = "get"})

\* C24: in BaseScraper.scrape and IndeedScraper.scrape, as long as no
\* exception has left the loop, the request of every pair but the last of
\* keywords x locations is directly followed by a random_delay, and the
\* request of the last pair is followed by none.
C24_DelayExceptAfterLast ==
    \A r \in Procs :
        (call[r].entry \in {"base", "indeed"} /\ scraper[r].error = "none") =>
            LET t == scraper[r].trace
                n == Len(call[r].keywords) * Len(call[r].locations)
            IN  \A i \in 1..Len(t) :
                    t[i].ev = "get" =>
                        IF RequestsUpTo(r, i) < n
                        THEN i < Len(t) /\ t[i + 1].ev = "delay"
                        ELSE i = Len(t)

\* r is inside an orchestrator's loops with at least max_jobs listings
\* accumulated.
AtCap(r) ==
    /\ pc[r] \in {"base_loop", "indeed_loop", "pag_loop"}
    /\ Len(scraper[r].jobs_scraped) >= call[r].max_jobs

\* With the cap reached the only step is the return, and it requests
\* nothing.
C25_Step ==
    \A r \in Procs :
        AtCap(r) =>
            /\ scraper'[r].trace = scraper[r].trace
            /\ scraper'[r].jobs_scraped = scraper[r].jobs_scraped
            /\ pc'[r] \in {pc[r], "returned", "save"}

\* A scrape that accumulated a positive cap's worth of listings has not
\* raised.
C25_State ==
    \A r \in Procs :
        (call[r].max_jobs >= 1 /\ Len(scraper[r].jobs_scraped) >= call[r].max_jobs) =>
            /\ pc[r] # "raised"
            /\ call[r].entry \in {"indeed", "paginated"} => scraper[r].error = "none"

\* C25: once the accumulated listings reach max_jobs no page is requested
\* for any later pair or page, and the scrape returns normally instead of
\* raising.
C25_CapStopsRun == [](C25_State) /\ [][C25_Step]_vars

\* A paginated scrape over two keywords and two locations returned after
\* its first page reached the cap: the other pages and pairs were never
\* requested.
C25_Witness ==
    \E r \in Procs :
        /\ call[r].entry = "paginated"
        /\ pc[r] = "returned"
        /\ Len(call[r].keywords) = 2 /\ Len(call[r].locations) = 2
        /\ call[r].max_pages = 2
        /\ call[r].max_jobs >= 1
        /\ Len(scraper[r].jobs_scraped) >= call[r].max_jobs
        /\ Len(Requests(r)) = 1

\* r's step asked scrape_search_page for a page.
Asked(r) ==
    /\ Len(scraper'[r].trace) > Len(scraper[r].trace)
    /\ scraper'[r].trace[Len(scraper[r].trace) + 1].ev \in {"get", "nofetch"}

\* Every page the paginated scrape asks for is the current pair's page
\* number scraper[r].page < max_pages at offset page * 10, asked with the
\* cap not reached; an empty page moves to the next location at page 0, a
\* page with listings stays with the pair at the next page.
C26_Step ==
    \A r \in Procs :
        (call[r].entry = "paginated" /\ Asked(r)) =>
            LET e == scraper'[r].trace[Len(scraper[r].trace) + 1] IN
            /\ e.keyword = call[r].keywords[scraper[r].ki]
            /\ e.location = call[r].locations[scraper[r].li]
            /\ e.start = scraper[r].page * 10
            /\ scraper[r].page < call[r].max_pages
            /\ Len(scraper[r].jobs_scraped) < call[r].max_jobs
            /\ pc'[r] = "pag_loop"
            /\ scraper'[r].ki = scraper[r].ki
            /\ IF scraper'[r].jobs_scraped = scraper[r].jobs_scraped
               THEN scraper'[r].li = scraper[r].li + 1 /\ scraper'[r].page = 0
               ELSE scraper'[r].li = scraper[r].li /\ scraper'[r].page = scraper[r].page + 1

\* The offsets of a paginated scrape's requests start at 0 and each next
\* one is 10 more for the same pair or 0 again; a scrape that returned
\* below the cap with max_pages >= 1 asked at least once for every pair
\* and at most max_pages times.
C26_State ==
    \A r \in Procs :
        call[r].entry = "paginated" =>
            LET t == SelectSeq(scraper[r].trace, LAMBDA e : e.ev \in {"get", "nofetch"})
                n == Len(call[r].keywords) * Len(call[r].locations)
            IN  /\ t # <<>> => t[1].start = 0
                /\ \A i \in 1..(Len(t) - 1) :
                      \/ t[i + 1].start = 0
                      \/ /\ t[i + 1].start = t[i].start + 10
                         /\ t[i + 1].keyword = t[i].keyword
                         /\ t[i + 1].location = t[i].location
                /\ \A i \in 1..Len(t) : t[i].start < call[r].max_pages * 10
                /\ ( /\ pc[r] = "returned"
                      /\ scraper[r].error = "none"
                      /\ call[r].max_pages >= 1
                      /\ Len(scraper[r].jobs_scraped) < call[r].max_jobs )
                    => /\ Len(t) >= n
                       /\ Len(t) <= n * call[r].max_pages
                       /\ Cardinality({i \in 1..Len(t) : t[i].start = 0}) = n

\* C26: scrape_with_pagination asks for pages 0, 1, 2, ... of a pair at
\* offset page * 10, leaves the pair at the first empty page, after
\* max_pages pages or at the cap, and an empty page is followed by the
\* first page of the next pair.
C26_Pagination == [](C26_State) /\ [][C26_Step]_vars

\* The first pair's first page was empty, and the second pair was still
\* asked for its pages 0 and 1.
C26_Witness ==
    \E r \in Procs :
        /\ call[r].entry = "paginated"
        /\ pc[r] = "returned"
        /\ call[r].locations = <<"l1", "l2">>
        /\ call[r].max_pages = 2
        /\ Len(Requests(r)) = 3
        /\ Requests(r)[1].location = "l1" /\ Requests(r)[1].start = 0
        /\ Requests(r)[2].location = "l2" /\ Requests(r)[2].start = 0
        /\ Requests(r)[3].location = "l2" /\ Requests(r)[3].start = 10

\* r's step dropped the listing it was saving.
Dropped(r) ==
    /\ Len(svc'[r].outcome) = Len(svc[r].outcome) + 1
    /\ svc'[r].outcome[Len(svc'[r].outcome)] = "dropped"

\* Dropping a listing stores nothing, counts nothing, and leaves the save
\* loop at the next listing.
C27_Step ==
    \A r \in Callers :
        Dropped(r) =>
            /\ jobs' = jobs
            /\ svc'[r].jobs_added = svc[r].jobs_added
            /\ svc'[r].jobs_duplicate = svc[r].jobs_duplicate
            /\ svc'[r].idx = svc[r].idx + 1
            /\ pc'[r] = "save"
            /\ scraper_logs' = scraper_logs

\* A run that dropped listings and is done went through every listing,
\* counted the dropped ones neither added nor duplicate, and is completed.
C27_State ==
    \A r \in Callers :
        (pc[r] = "done" /\ NOutcome(r, "dropped") > 0) =>
            /\ Len(svc[r].outcome) = Len(Returned(r))
            /\ svc[r].summary.jobs_added = NOutcome(r, "added")
            /\ svc[r].summary.jobs_duplicate =
                  NOutcome(r, "duplicate") + NOutcome(r, "conflict")
            /\ LogRow(r).status = "completed"
            /\ LogRow(r).jobs_added = NOutcome(r, "added")
            /\ svc[r].summary.status = "success"

\* C27: a storage fault other than a uniqueness conflict on one listing
\* drops that listing only: it is counted neither added nor duplicate, the
\* listings after it are still processed, and the run ends completed.
C27_FaultDropsOneListing == [](C27_State) /\ [][C27_Step]_vars

\* The first of two listings was dropped, the second was added, and the
\* run is completed.
C27_Witness ==
    \E r \in Callers :
        /\ pc[r] = "done"
        /\ svc[r].outcome = <<"dropped", "added">>
        /\ svc[r].summary.jobs_added = 1
        /\ svc[r].summary.jobs_duplicate = 0
        /\ LogRow(r).status = "completed"

\* r's step was a direct call of _init_driver.
InitCalled(r) ==
    /\ Len(scraper'[r].trace) = Len(scraper[r].trace) + 1
    /\ scraper'[r].trace[Len(scraper'[r].trace)].ev = "init"

\* At most one session is open: every session opened but the open one has
\* been quit.
C28_State ==
    \A r \in Procs :
        /\ scraper[r].opened - scraper[r].quits \in {0, 1}
        /\ (scraper[r].driver = "open") <=> (scraper[r].opened = scraper[r].quits + 1)

\* A session is created only when none is open, one at a time; and
\* _init_driver called with a session open changes nothing of the object.
C28_Step ==
    \A r \in Procs :
        /\ scraper[r].driver = "open" => scraper'[r].opened = scraper[r].opened
        /\ scraper'[r].opened # scraper[r].opened =>
              /\ scraper'[r].opened = scraper[r].opened + 1
              /\ \/ scraper'[r].driver = "open"
                 \/ scraper'[r].quits = scraper[r].quits + 1
        /\ (InitCalled(r) /\ scraper[r].driver = "open") =>
              scraper'[r] = [scraper[r] EXCEPT !.trace = scraper'[r].trace]

\* C28: over any sequence of _init_driver, scrape_search_page and scrape
\* calls on one IndeedScraper at most one browser session is open at a
\* time, and _init_driver with a session open creates none and leaves the
\* open one as it is.
C28_InitDriverIdempotent == [](C28_State) /\ [][C28_Step]_vars

\* A scrape closed the object's first session, a later call opened a
\* second one, and _init_driver was then called with it open.
C28_Witness ==
    \E r \in Procs :
        /\ pc[r] = "idle"
        /\ scraper[r].driver = "open"
        /\ scraper[r].opened = 2
        /\ scraper[r].quits = 1
        /\ Len(scraper[r].trace) = 2
        /\ scraper[r].trace[2].ev = "init"
        /\ scraper[r].trace[2].ok

\* A completed run's summary and row: found is the number of listings the
\* scrape returned, every one of them was added, counted duplicate or
\* dropped, and the counts add up.
C29_State ==
    \A r \in Callers :
        (pc[r] = "done" /\ svc[r].summary.status = "success") =>
            LET s == svc[r].summary
                dropped == NOutcome(r, "dropped")
            IN  /\ s.jobs_found = Len(Returned(r))
                /\ s.jobs_found = s.jobs_added + s.jobs_duplicate + dropped
                /\ dropped = 0 => s.jobs_found = s.jobs_added + s.jobs_duplicate
                /\ s.jobs_added = NOutcome(r, "added")
                /\ LogRow(r).jobs_found = s.jobs_found
                /\ LogRow(r).jobs_added = s.jobs_added

\* In the save loop, jobs_added grows exactly when the run's step stored
\* a row, and by the number of rows stored.
C29_Step ==
    \A r \in Callers :
        (pc[r] \in {"save", "insert"} /\ svc'[r] # svc[r]) =>
            /\ svc'[r].jobs_added - svc[r].jobs_added = Len(jobs') - Len(jobs)
            /\ svc'[r].jobs_duplicate >= svc[r].jobs_duplicate

\* C29: for a completed run found = added + duplicate + dropped, hence
\* found = added + duplicate when nothing was dropped, and added is the
\* number of rows the run inserted into jobs.
C29_Accounting == [](C29_State) /\ [][C29_Step]_vars

\* A completed run found two listings: one met an IntegrityError and was
\* counted duplicate, one was dropped.
C29_Witness ==
    \E r \in Callers :
        /\ pc[r] = "done"
        /\ svc[r].summary.status = "success"
        /\ svc[r].summary.jobs_found = 2
        /\ NOutcome(r, "conflict") = 1
        /\ NOutcome(r, "dropped") = 1

\* C30: in IndeedScraper.scrape and scrape_with_pagination the page
\* requests of one run come one after the other, and between any two of
\* them there is a random_delay, also between the last page of one pair
\* and the first page of the next.
C30_DelayBetweenRequests ==
    \A r \in Procs :
        call[r].entry \in {"indeed", "paginated"} =>
            LET t == scraper[r].trace IN
            \A i, j \in 1..Len(t) :
                (i < j /\ t[i].ev = "get" /\ t[j].ev = "get") =>
                    \E k \in (i + 1)..(j - 1) : t[k].ev = "delay"

====
